---- MODULE Spec2Model ----
(***************************************************************************)
(* The consumer/dispatch pipeline of the booking agent:                    *)
(*   QueueConsumer.process_message / publish_response  (queue_consumer.py) *)
(*   SessionManager.process_message / cleanup_session  (session_manager.py)*)
(* together with the broker's view of the inbound queue (ag_queue) and the *)
(* outbound queue (wb_queue).                                              *)
(*                                                                         *)
(* One process_message task exists per delivery.  asyncio runs a task      *)
(* without interruption between two awaits, so every action below is the   *)
(* code from one suspension point to the next.                             *)
(***************************************************************************)
EXTENDS Integers, Sequences, FiniteSets, Bags, TLC

\* ------------------------------------------------------------------ bounds
NumMsgs == 2            \* inbound messages put on ag_queue
MaxPrefetch == 2        \* prefetch_count is drawn from 1..MaxPrefetch
MaxPermits == 2         \* max_concurrent is drawn from 1..MaxPermits
MaxFaults == 1          \* calls of the broker or the adapter that raise
TickMs == 300000        \* milliseconds one Tick advances the broker's clock

\* ------------------------------------------------------- program constants
X_MESSAGE_TTL == 300000

\* The burst of section 8 of the design: one message more than max_concurrent
\* can reach.  Messages beyond the first NumMsgs exist in the burst only.
BurstSize == MaxPermits + 1

Msgs == 1..BurstSize
Queued == 1..NumMsgs

\* contact.remoteJid values: "+111@x", "+222@x", ...
JidOf(i) == "+" \o ToString(i) \o ToString(i) \o ToString(i) \o "@x"
Jids == {JidOf(i) : i \in Msgs}
\* The value of active_sessions.get(k) for a key that is not tracked.
Absent == [session_id |-> "", message_count |-> 0]

\* Python's None.
None == [none |-> TRUE]

\* The variables main() requires (main.py lines 126-130).
required_vars == {"AZURE_OPENAI_ENDPOINT", "AZURE_OPENAI_API_KEY",
                  "AZURE_OPENAI_DEPLOYMENT_NAME"}

QueueNames == {"ag_queue", "wb_queue"}

\* What the body of an inbound message is.
Kinds == {"valid", "bad_utf8", "bad_json", "not_object"}
Malformed == Kinds \ {"valid"}

\* A JSON object that has no messageId member.
Bodies == Kinds \cup {"no_id"}

\* What runner.run does for one invocation: events whose parts carry the
\* text AgentText, no event with a text, events whose parts carry the text
\* None, or an exception.
AgentOutcomes == {"text", "empty", "none_text", "raise"}
AgentText == "Booked!"

CANNED_ACK == "I processed your request successfully."
APOLOGY == "I encountered an error processing your request. Please try again."

NoResponse == [status |-> "none"]

VARIABLES
    prefetch_count,   \* QueueConsumer.prefetch_count
    max_concurrent,   \* QueueConsumer.max_concurrent
    channel,          \* QueueConsumer.channel: "none", "open" or "closed"
    permits,          \* the value of QueueConsumer.semaphore
    kind,             \* kind[m]: the body of message m
    jid,              \* jid[m]: contact.remoteJid of message m
    ag_queue,         \* ag_queue[m]: the broker's state of message m
    redelivered,      \* redelivered[m]: the broker has requeued m (AMQP's flag)
    pc,               \* pc[m]: where the process_message task of m's delivery is
    log,              \* log[m]: what m's running task has done so far, in order
    response,         \* response[m]: the response m's running task has built
    active_sessions,  \* SessionManager.active_sessions: jid -> tracked entry
    session_service,  \* sessions held by the adapter (InMemorySessionService)
    wb_queue,         \* the bag of messages published to wb_queue
    now,              \* milliseconds since the messages were enqueued
    faults,           \* calls that have raised so far
    connection,       \* QueueConsumer.connection: "none", "open" or "closed"
    is_running,       \* QueueConsumer.is_running
    qos,              \* the prefetch count set on the channel, 0 before set_qos
    declared,         \* the queues connect() has declared on the channel
    consuming,        \* queue.consume has registered process_message
    main,             \* where the task running main() / the caller is
    stopper,          \* where the task running shutdown() and stop() is
    service_is_running, \* BookingAgentService.is_running
    returned,         \* returned[m]: what runner.run did for request m
    environ,          \* the required variables that os.getenv finds set
    stop_calls,       \* the calls of consumer.stop() made by shutdown() so far
    entry             \* the module run as __main__: "service" or "consumer"

config == <<prefetch_count, max_concurrent, channel>>
clock == <<now, faults>>
inbound == <<kind, jid, environ, stop_calls, entry>>
sessions == <<active_sessions, session_service>>
service == <<connection, is_running, qos, declared, consuming, main, stopper,
             service_is_running, returned>>
vars == <<prefetch_count, max_concurrent, channel, permits, kind, jid, ag_queue,
          redelivered,
          pc, log, response, active_sessions, session_service,
          wb_queue, now, faults, connection, is_running, qos, declared,
          consuming, main, stopper, service_is_running, returned, environ,
          stop_calls, entry>>

\* --------------------------------------------------------------- helpers
MsgId(m) == "m" \o ToString(m)

\* request.get('messageId', 'unknown'), line 63.
message_id(m) == IF kind[m] = "no_id" THEN "unknown" ELSE MsgId(m)

\* request.get('contact', {}), line 64: the contact object of the request.
contact(m) == [remoteJid |-> jid[m]]

\* contact.get('remoteJid', 'unknown'), line 65.
RemoteJid(m) == contact(m).remoteJid

Unacked == {m \in Msgs : ag_queue[m] = "unacked"}

\* The tasks inside `async with self.semaphore`.
InSection == {m \in Msgs : pc[m] \notin {"none", "received"}}

\* A delivery whose task ended without settling it.
Orphan(m) == ag_queue[m] = "unacked" /\ pc[m] = "none"

Tracked(k) == active_sessions[k] # Absent

Logged(m, e) == \E i \in 1..Len(log[m]) : log[m][i] = e

CountOf(s, e) == Cardinality({i \in 1..Len(s) : s[i] = e})

\* ------------------------------------------------------- JSON documents
\* A JSON value is a tagged tuple; an object holds its members in the order
\* json.dumps writes them, which is the insertion order of the dict.
JString(s) == <<"string", s>>
JNumber(n) == <<"number", n>>
JNull == <<"null">>
JArray(elems) == <<"array", elems>>
JObject(members) == <<"object", members>>

JStrings(seq) == JArray([i \in 1..Len(seq) |-> JString(seq[i])])

\* json.dumps(response, ensure_ascii=False) for a response dictionary.
json_dumps(resp) ==
    JObject(<<
        <<"messageId", JString(resp.messageId)>>,
        <<"originalMessageId", JString(resp.originalMessageId)>>,
        <<"timestamp", JNumber(resp.timestamp)>>,
        <<"status", JString(resp.status)>>,
        <<"contact", JObject(<< <<"remoteJid", JString(resp.contact.remoteJid)>> >>)>>,
        <<"response", JObject(<<
            <<"text", JString(resp.response.text)>>,
            <<"type", JString(resp.response.type)>>,
            <<"attachments", JStrings(resp.response.attachments)>> >>)>>,
        <<"agentMetadata", JObject(<<
            <<"sessionId", JString(resp.agentMetadata.sessionId)>>,
            <<"toolsUsed", JStrings(resp.agentMetadata.toolsUsed)>>,
            <<"reasoningSteps", JStrings(resp.agentMetadata.reasoningSteps)>>,
            <<"processingTime", JNumber(resp.agentMetadata.processingTime)>>,
            <<"tokensUsed", JNumber(resp.agentMetadata.tokensUsed)>>,
            <<"model", JString(resp.agentMetadata.model)>> >>)>>,
        <<"error", IF resp.error = None
                   THEN JNull
                   ELSE JObject(<<
                       <<"code", JString(resp.error.code)>>,
                       <<"message", JString(resp.error.message)>>,
                       <<"stack", JNull>> >>)>> >>)

\* str.encode('utf-8') and bytes.decode('utf-8').
encode(text) == <<"utf-8", text>>
decode(bytes) == bytes[2]

\* The value of member `name` of a JSON object.
Member(obj, name) ==
    obj[2][CHOOSE i \in 1..Len(obj[2]) : obj[2][i][1] = name][2]

Strings(arr) == [i \in 1..Len(arr[2]) |-> arr[2][i][2]]

\* json.loads(body.decode('utf-8')) of a serialised response.
json_loads(bytes) ==
    LET doc == decode(bytes)
        c == Member(doc, "contact")
        r == Member(doc, "response")
        a == Member(doc, "agentMetadata")
        e == Member(doc, "error")
    IN [messageId |-> Member(doc, "messageId")[2],
        originalMessageId |-> Member(doc, "originalMessageId")[2],
        timestamp |-> Member(doc, "timestamp")[2],
        status |-> Member(doc, "status")[2],
        contact |-> [remoteJid |-> Member(c, "remoteJid")[2]],
        response |-> [text |-> Member(r, "text")[2],
                      type |-> Member(r, "type")[2],
                      attachments |-> Strings(Member(r, "attachments"))],
        agentMetadata |-> [sessionId |-> Member(a, "sessionId")[2],
                           toolsUsed |-> Strings(Member(a, "toolsUsed")),
                           reasoningSteps |-> Strings(Member(a, "reasoningSteps")),
                           processingTime |-> Member(a, "processingTime")[2],
                           tokensUsed |-> Member(a, "tokensUsed")[2],
                           model |-> Member(a, "model")[2]],
        error |-> IF e[1] = "null"
                  THEN None
                  ELSE [code |-> Member(e, "code")[2],
                        message |-> Member(e, "message")[2],
                        stack |-> None]]

\* The messages on wb_queue that answer inbound message m.
AnswersTo(m) ==
    {b \in BagToSet(wb_queue) : json_loads(b.body).originalMessageId = message_id(m)}

RECURSIVE SumCopies(_)
SumCopies(S) ==
    IF S = {} THEN 0
    ELSE LET b == CHOOSE x \in S : TRUE IN CopiesIn(b, wb_queue) + SumCopies(S \ {b})

PublishedFor(m) == SumCopies(AnswersTo(m))

\* ------------------------------------------------ SessionManager (pure part)
\* The text collected from the events of runner.run; an exception raised by
\* runner.run is caught by the inner try and leaves response_text empty.
ExtractText(outcome) ==
    CASE outcome = "text" -> AgentText
      [] outcome = "none_text" -> "None"
      [] OTHER -> ""

\* Mutant of Fallback: the extracted text is used as it is.
FallbackIdentity(text) == text

\* `if not response_text or response_text == "None"`.
Fallback(text) == IF text = "" \/ text = "None" THEN CANNED_ACK ELSE text

\* Mutant of get_session_id: a fresh identifier instead of the key.
get_session_id_uuid(remote_jid) == "uuid4"

\* Lines 34-46.
get_session_id(remote_jid) == remote_jid

\* len(response_text.split()) for the texts of this module.
WordCount(text) ==
    CASE text = "" -> 0
      [] text = CANNED_ACK -> 5
      [] text = APOLOGY -> 11
      [] OTHER -> 1

\* int(datetime.now().timestamp()) and the elapsed seconds: the values play
\* no part in any behaviour, only that an integer and a float are there.
Timestamp == "int"
ProcessingTime == "float"

\* Lines 186-208.
SuccessResponse(m, text) ==
    [messageId |-> "resp-" \o message_id(m),
     originalMessageId |-> message_id(m),
     timestamp |-> Timestamp,
     status |-> "success",
     contact |-> contact(m),
     response |-> [text |-> text, type |-> "text", attachments |-> << >>],
     agentMetadata |->
         [sessionId |-> RemoteJid(m),
          toolsUsed |-> << >>,
          reasoningSteps |-> <<"Processed with Google ADK Agent">>,
          processingTime |-> ProcessingTime,
          tokensUsed |-> WordCount(text),
          model |-> "azure-openai"],
     error |-> None]

\* Mutant of ErrorResponse: the error response carries no timing and no
\* model in its metadata.
ErrorResponseBare(m) ==
    [messageId |-> "resp-" \o message_id(m),
     originalMessageId |-> message_id(m),
     timestamp |-> Timestamp,
     status |-> "error",
     contact |-> contact(m),
     response |-> [text |-> APOLOGY, type |-> "text", attachments |-> << >>],
     agentMetadata |->
         [sessionId |-> get_session_id(RemoteJid(m)),
          toolsUsed |-> << >>,
          reasoningSteps |-> << >>,
          tokensUsed |-> 0],
     error |-> [code |-> "PROCESSING_ERROR", message |-> "str(e)", stack |-> None]]

\* Mutant of ErrorResponse: the error response carries no error object.
ErrorResponseNoError(m) ==
    [messageId |-> "resp-" \o message_id(m),
     originalMessageId |-> message_id(m),
     timestamp |-> Timestamp,
     status |-> "error",
     contact |-> contact(m),
     response |-> [text |-> APOLOGY, type |-> "text", attachments |-> << >>],
     agentMetadata |->
         [sessionId |-> get_session_id(RemoteJid(m)),
          toolsUsed |-> << >>,
          reasoningSteps |-> << >>,
          processingTime |-> ProcessingTime,
          tokensUsed |-> 0,
          model |-> "azure-openai"],
     error |-> None]

\* Lines 210-240.
ErrorResponse(m) ==
    [messageId |-> "resp-" \o message_id(m),
     originalMessageId |-> message_id(m),
     timestamp |-> Timestamp,
     status |-> "error",
     contact |-> contact(m),
     response |-> [text |-> APOLOGY, type |-> "text", attachments |-> << >>],
     agentMetadata |->
         [sessionId |-> get_session_id(RemoteJid(m)),
          toolsUsed |-> << >>,
          reasoningSteps |-> << >>,
          processingTime |-> ProcessingTime,
          tokensUsed |-> 0,
          model |-> "azure-openai"],
     error |-> [code |-> "PROCESSING_ERROR", message |-> "str(e)", stack |-> None]]

\* Lines 120-208: run the agent, extract, fall back, build the response.
InvokeAndBuild(m, outcome) == SuccessResponse(m, Fallback(ExtractText(outcome)))

RunEvent(outcome) == IF outcome = "raise" THEN "run_raise" ELSE "run_return"

\* Line 91.
Increment(as, k) == [as EXCEPT ![k].message_count = @ + 1]

\* Lines 84-88: the tracked entry is (re)written with message_count 0.
Record(as, k) == [as EXCEPT ![k] = [session_id |-> k, message_count |-> 0]]

\* ------------------------------------------------------------------- Init
\* QueueConsumer.__init__ and SessionManager.__init__.
Constructed ==
    /\ prefetch_count \in 1..MaxPrefetch
    /\ max_concurrent \in 1..MaxPermits
    /\ permits = max_concurrent
    /\ active_sessions = [k \in Jids |-> Absent]
    /\ session_service = {}

\* The messages of `queued` wait on ag_queue; the other identities are not
\* used.  The first message is from the first remoteJid, the next from that
\* one or the second, and so on.
Enqueued(queued) ==
    /\ kind \in [Msgs -> Kinds]
    /\ jid \in [Msgs -> Jids]
    /\ \A m \in Msgs : jid[m] \in {JidOf(i) : i \in 1..m}
    /\ \A m \in Msgs \ queued : kind[m] = "valid" /\ jid[m] = JidOf(m)
    /\ ag_queue = [m \in Msgs |-> IF m \in queued THEN "ready" ELSE "absent"]
    /\ redelivered = [m \in Msgs |-> FALSE]
    /\ wb_queue = EmptyBag
    /\ now = 0
    /\ faults = 0

\* No process_message task exists.
NoTasks ==
    /\ pc = [m \in Msgs |-> "none"]
    /\ log = [m \in Msgs |-> << >>]
    /\ response = [m \in Msgs |-> NoResponse]
    /\ returned = [m \in Msgs |-> "none"]

\* connect() has returned True and start_consuming has registered
\* process_message with queue.consume; no signal has arrived.
Consuming ==
    /\ connection = "open"
    /\ channel = "open"
    /\ qos = prefetch_count
    /\ declared = QueueNames
    /\ is_running = TRUE
    /\ consuming = TRUE
    /\ main = "loop"
    /\ stopper = "none"
    /\ service_is_running = TRUE
    /\ stop_calls = 0
    /\ entry = "service"

\* main() found every required variable set.
Configured == environ = required_vars

Init == Constructed /\ Enqueued(Queued) /\ NoTasks /\ Consuming /\ Configured

\* ----------------------------------------------------------------- broker
\* The broker hands the oldest ready message to the consumer while fewer than
\* prefetch_count deliveries are unacknowledged; an expired message is never
\* delivered.  aio_pika starts one process_message task per delivery.
\* Mutant of Expired: ag_queue declared without x-message-ttl.
NeverExpired == FALSE

\* ag_queue is declared with x-message-ttl (line 81): a message that has
\* waited that long is expired.  All messages were enqueued at time 0.
Expired == now >= X_MESSAGE_TTL

\* Mutant of CanDeliver: a channel on which set_qos was never called.
CanDeliverNoQos(m) ==
    /\ ag_queue[m] = "ready"
    /\ \A o \in Msgs : ag_queue[o] = "ready" => m <= o
    /\ ~Expired

CanDeliver(m) ==
    /\ ag_queue[m] = "ready"
    /\ \A o \in Msgs : ag_queue[o] = "ready" => m <= o
    /\ Cardinality(Unacked) < prefetch_count
    /\ ~Expired

Deliver(m) ==
    /\ channel = "open"
    /\ consuming
    /\ CanDeliver(m)
    /\ ag_queue' = [ag_queue EXCEPT ![m] = "unacked"]
    /\ pc' = [pc EXCEPT ![m] = "received"]
    /\ log' = [log EXCEPT ![m] = << >>]
    /\ response' = [response EXCEPT ![m] = NoResponse]
    /\ UNCHANGED <<redelivered, config, service, inbound, sessions, permits, wb_queue,
                   clock>>

\* x-message-ttl: a message still ready when its TTL has passed is
\* dead-lettered to dlx_agent.  Only a message still held by the queue
\* observes the clock, so Tick is taken while there is one.
Expire(m) ==
    /\ ag_queue[m] = "ready"
    /\ Expired
    /\ ag_queue' = [ag_queue EXCEPT ![m] = "expired"]
    /\ UNCHANGED <<redelivered, config, service, inbound, sessions, permits, pc, log,
                   response, wb_queue, clock>>

Tick ==
    /\ now < X_MESSAGE_TTL
    /\ \E m \in Msgs : ag_queue[m] \in {"ready", "unacked"}
    /\ now' = now + TickMs
    /\ UNCHANGED <<config, service, inbound, sessions, permits, ag_queue, redelivered, pc,
                   log, response, wb_queue, faults>>

\* A delivery left unsettled by a task that died stays unacknowledged until
\* its channel goes away; the broker then puts it back on the queue.
BrokerRequeue(m) ==
    /\ Orphan(m)
    /\ ag_queue' = [ag_queue EXCEPT ![m] = "ready"]
    /\ redelivered' = [redelivered EXCEPT ![m] = TRUE]
    /\ UNCHANGED <<config, service, inbound, sessions, permits, pc, log,
                   response, wb_queue, clock>>

\* A call of the broker or of the adapter raises; the model follows at most
\* MaxFaults such calls while the channel is open.  On a closed channel every
\* call of the broker raises.
Raise ==
    /\ IF channel = "open"
          THEN faults < MaxFaults /\ faults' = faults + 1
          ELSE UNCHANGED faults
    /\ UNCHANGED now

Return == UNCHANGED <<now, faults>>

\* ------------------------------------------- QueueConsumer.process_message
\* Mutant of CanAcquire: the section is entered without a free permit.
CanAcquireUnbounded == TRUE

\* asyncio.Semaphore.acquire returns at once while the value is positive.
CanAcquire == permits > 0

\* The exception handler a body of kind k ends in (lines 112-117 and the
\* except clauses of lines 132-139): json.loads raises JSONDecodeError for
\* text that is no JSON; bytes.decode raises UnicodeDecodeError and
\* request.get raises AttributeError, neither of which is a JSONDecodeError.
DecodeHandler(k) ==
    CASE k = "bad_json" -> "rejecting"
      [] k = "bad_utf8" -> "nacking"
      [] k = "not_object" -> "nacking"
      [] OTHER -> "route"

\* The exception the decoding lines raise for a body of kind k.
DecodeException(k) ==
    CASE k = "bad_json" -> "JSONDecodeError"
      [] k = "bad_utf8" -> "UnicodeDecodeError"
      [] OTHER -> "AttributeError"

SettleCall(h) == IF h = "rejecting" THEN "reject" ELSE "nack"

\* publish_response up to its first await: without a channel it returns at
\* once and process_message goes on to message.ack().
PublishEntryPc == IF channel = "none" THEN "acking" ELSE "pub_declare"

PublishEntryLog ==
    IF channel = "none" THEN <<"publish_call", "no_channel", "ack">> ELSE <<"publish_call">>

\* Mutant of StartDecodeFailed: the session of the sender is recorded and
\* counted before the body is decoded.
StartDecodeFailedCounts(m) ==
    /\ pc[m] = "received"
    /\ CanAcquire
    /\ DecodeHandler(kind[m]) # "route"
    /\ permits' = permits - 1
    /\ active_sessions' = Increment(Record(active_sessions, jid[m]), jid[m])
    /\ pc' = [pc EXCEPT ![m] = DecodeHandler(kind[m])]
    /\ log' = [log EXCEPT ![m] = <<"acquire", "decode", DecodeException(kind[m]),
                                    SettleCall(DecodeHandler(kind[m]))>>]
    /\ UNCHANGED <<config, service, inbound, session_service, ag_queue, redelivered,
                   response, wb_queue, clock>>

\* Semaphore acquired, body decoded, decoding failed.
StartDecodeFailed(m) ==
    /\ pc[m] = "received"
    /\ CanAcquire
    /\ DecodeHandler(kind[m]) # "route"
    /\ permits' = permits - 1
    /\ pc' = [pc EXCEPT ![m] = DecodeHandler(kind[m])]
    /\ log' = [log EXCEPT ![m] = <<"acquire", "decode", DecodeException(kind[m]),
                                    SettleCall(DecodeHandler(kind[m]))>>]
    /\ UNCHANGED <<config, service, inbound, sessions, ag_queue, redelivered, response,
                   wb_queue, clock>>

\* Semaphore acquired, body decoded, no tracked session: the task awaits
\* session_service.create_session (session_manager.py line 76).
StartNewSession(m) ==
    /\ pc[m] = "received"
    /\ CanAcquire
    /\ DecodeHandler(kind[m]) = "route"
    /\ ~Tracked(jid[m])
    /\ permits' = permits - 1
    /\ pc' = [pc EXCEPT ![m] = "creating"]
    /\ log' = [log EXCEPT ![m] = <<"acquire", "decode", "route", "create_session">>]
    /\ UNCHANGED <<config, service, inbound, sessions, ag_queue, redelivered, response,
                   wb_queue, clock>>

\* Mutant of StartTracked: message.ack() is called before publish_response.
StartTrackedAckFirst(m, outcome) ==
    /\ pc[m] = "received"
    /\ CanAcquire
    /\ DecodeHandler(kind[m]) = "route"
    /\ Tracked(jid[m])
    /\ permits' = permits - 1
    /\ active_sessions' = Increment(active_sessions, jid[m])
    /\ response' = [response EXCEPT ![m] = InvokeAndBuild(m, outcome)]
    /\ pc' = [pc EXCEPT ![m] = "acking"]
    /\ log' = [log EXCEPT ![m] =
                 <<"acquire", "decode", "route", RunEvent(outcome), "build", "ack">>]
    /\ UNCHANGED <<config, service, inbound, session_service, ag_queue, redelivered,
                   wb_queue, clock>>

\* Semaphore acquired, body decoded, session tracked: count, run the agent
\* (runner.run is a plain call, the task does not yield), build the response
\* and enter publish_response.
StartTracked(m, outcome) ==
    /\ pc[m] = "received"
    /\ CanAcquire
    /\ DecodeHandler(kind[m]) = "route"
    /\ Tracked(jid[m])
    /\ permits' = permits - 1
    /\ active_sessions' = Increment(active_sessions, jid[m])
    /\ response' = [response EXCEPT ![m] = InvokeAndBuild(m, outcome)]
    /\ pc' = [pc EXCEPT ![m] = PublishEntryPc]
    /\ log' = [log EXCEPT ![m] =
                 <<"acquire", "decode", "route", RunEvent(outcome), "build">>
                 \o PublishEntryLog]
    /\ UNCHANGED <<config, service, inbound, session_service, ag_queue, redelivered,
                   wb_queue, clock>>

\* create_session returned: the entry is written with message_count 0
\* whatever is tracked by now, then counted; the rest as in StartTracked.
CreateSessionReturn(m, outcome) ==
    /\ pc[m] = "creating"
    /\ session_service' = session_service \cup {jid[m]}
    /\ active_sessions' = Increment(Record(active_sessions, jid[m]), jid[m])
    /\ response' = [response EXCEPT ![m] = InvokeAndBuild(m, outcome)]
    /\ pc' = [pc EXCEPT ![m] = PublishEntryPc]
    /\ log' = [log EXCEPT ![m] = @ \o <<RunEvent(outcome), "build">> \o PublishEntryLog]
    /\ UNCHANGED <<config, service, inbound, permits, ag_queue, redelivered, wb_queue,
                   clock>>

\* Mutant of CreateSessionRaise: the exception leaves
\* SessionManager.process_message and reaches `except Exception` of the
\* consumer.
CreateSessionRaiseEscapes(m) ==
    /\ pc[m] = "creating"
    /\ pc' = [pc EXCEPT ![m] = "nacking"]
    /\ log' = [log EXCEPT ![m] = @ \o <<"create_raise", "nack">>]
    /\ Raise
    /\ UNCHANGED <<config, service, inbound, sessions, permits, ag_queue,
                   redelivered, response, wb_queue>>

\* Mutant of CreateSessionRaise: the entry was written before create_session
\* was awaited.
CreateSessionRaiseRecords(m) ==
    /\ pc[m] = "creating"
    /\ active_sessions' = Record(active_sessions, jid[m])
    /\ response' = [response EXCEPT ![m] = ErrorResponse(m)]
    /\ pc' = [pc EXCEPT ![m] = PublishEntryPc]
    /\ log' = [log EXCEPT ![m] = @ \o <<"create_raise", "build">> \o PublishEntryLog]
    /\ Raise
    /\ UNCHANGED <<config, service, inbound, session_service, permits, ag_queue,
                   redelivered, wb_queue>>

\* create_session raised: the outer except of SessionManager.process_message
\* builds the error response (lines 210-240) and publish_response is entered.
CreateSessionRaise(m) ==
    /\ pc[m] = "creating"
    /\ response' = [response EXCEPT ![m] = ErrorResponse(m)]
    /\ pc' = [pc EXCEPT ![m] = PublishEntryPc]
    /\ log' = [log EXCEPT ![m] = @ \o <<"create_raise", "build">> \o PublishEntryLog]
    /\ Raise
    /\ UNCHANGED <<config, service, inbound, sessions, permits, ag_queue, redelivered,
                   wb_queue>>

\* ------------------------------------------ QueueConsumer.publish_response
\* Mutant of BrokerMessage: delivery_mode is left at aio_pika's default.
BrokerMessageTransient(resp) ==
    [body |-> encode(json_dumps(resp)),
     content_type |-> "application/json",
     delivery_mode |-> "NOT_PERSISTENT",
     message_id |-> resp.messageId,
     routing_key |-> "wb_queue"]

\* The message handed to default_exchange.publish (lines 160-170).
BrokerMessage(resp) ==
    [body |-> encode(json_dumps(resp)),
     content_type |-> "application/json",
     delivery_mode |-> "PERSISTENT",
     message_id |-> resp.messageId,
     routing_key |-> "wb_queue"]

\* Mutant of PublishDeclare: message.ack() was sent before publish_response
\* was entered, so the broker has dropped the message by now.
PublishDeclareAfterAck(m, ok) ==
    /\ pc[m] = "pub_declare"
    /\ ok => channel = "open"
    /\ ag_queue' = [ag_queue EXCEPT ![m] = "acked"]
    /\ pc' = [pc EXCEPT ![m] = IF ok THEN "pub_publish" ELSE "acking"]
    /\ log' = [log EXCEPT ![m] = @ \o (IF ok THEN <<"declare_ok">> ELSE <<"declare_raise", "ack">>)]
    /\ IF ok THEN Return ELSE Raise
    /\ UNCHANGED <<config, service, inbound, sessions, permits, redelivered,
                   response, wb_queue>>

\* The passive declare_queue returned or raised; a raise is logged by the
\* except of publish_response and process_message goes on to ack.
PublishDeclare(m, ok) ==
    /\ pc[m] = "pub_declare"
    /\ ok => channel = "open"
    /\ pc' = [pc EXCEPT ![m] = IF ok THEN "pub_publish" ELSE "acking"]
    /\ log' = [log EXCEPT ![m] = @ \o (IF ok THEN <<"declare_ok">> ELSE <<"declare_raise", "ack">>)]
    /\ IF ok THEN Return ELSE Raise
    /\ UNCHANGED <<config, service, inbound, sessions, permits, ag_queue, redelivered,
                   response, wb_queue>>

\* Mutant of PublishSend: publish_response lets the exception of publish
\* through to `except Exception` of process_message.
PublishSendPropagates(m, ok) ==
    /\ pc[m] = "pub_publish"
    /\ ok => channel = "open"
    /\ wb_queue' = IF ok THEN wb_queue (+) SetToBag({BrokerMessage(response[m])}) ELSE wb_queue
    /\ pc' = [pc EXCEPT ![m] = IF ok THEN "acking" ELSE "nacking"]
    /\ log' = [log EXCEPT ![m] =
                 @ \o (IF ok THEN <<"publish_ok", "ack">> ELSE <<"publish_raise", "nack">>)]
    /\ IF ok THEN Return ELSE Raise
    /\ UNCHANGED <<config, service, inbound, sessions, permits, ag_queue,
                   redelivered, response>>

\* default_exchange.publish returned or raised.
PublishSend(m, ok) ==
    /\ pc[m] = "pub_publish"
    /\ ok => channel = "open"
    /\ wb_queue' = IF ok THEN wb_queue (+) SetToBag({BrokerMessage(response[m])}) ELSE wb_queue
    /\ pc' = [pc EXCEPT ![m] = "acking"]
    /\ log' = [log EXCEPT ![m] = @ \o <<IF ok THEN "publish_ok" ELSE "publish_raise", "ack">>]
    /\ IF ok THEN Return ELSE Raise
    /\ UNCHANGED <<config, service, inbound, sessions, permits, ag_queue, redelivered,
                   response>>

\* ------------------------------------------------------------- settlement
\* Mutant of AckOk: the task ends without giving its permit back.
AckOkKeepsPermit(m) ==
    /\ pc[m] = "acking"
    /\ channel = "open"
    /\ ag_queue' = [ag_queue EXCEPT ![m] = "acked"]
    /\ pc' = [pc EXCEPT ![m] = "none"]
    /\ log' = [log EXCEPT ![m] = << >>]
    /\ response' = [response EXCEPT ![m] = NoResponse]
    /\ UNCHANGED <<redelivered, config, service, inbound, sessions, permits,
                   wb_queue, clock>>

\* message.ack() returned: the broker drops the message; the task leaves the
\* semaphore.
AckOk(m) ==
    /\ pc[m] = "acking"
    /\ channel = "open"
    /\ ag_queue' = [ag_queue EXCEPT ![m] = "acked"]
    /\ pc' = [pc EXCEPT ![m] = "none"]
    /\ permits' = permits + 1
    /\ log' = [log EXCEPT ![m] = << >>]
    /\ response' = [response EXCEPT ![m] = NoResponse]
    /\ UNCHANGED <<redelivered, config, service, inbound, sessions, wb_queue, clock>>

\* Mutant of AckRaise: the handler rejects instead of requeueing.
AckRaiseReject(m) ==
    /\ pc[m] = "acking"
    /\ pc' = [pc EXCEPT ![m] = "rejecting"]
    /\ log' = [log EXCEPT ![m] = @ \o <<"ack_raise", "reject">>]
    /\ Raise
    /\ UNCHANGED <<config, service, inbound, sessions, permits, ag_queue, redelivered,
                   response, wb_queue>>

\* message.ack() raised: `except Exception` calls message.nack(requeue=True).
AckRaise(m) ==
    /\ pc[m] = "acking"
    /\ pc' = [pc EXCEPT ![m] = "nacking"]
    /\ log' = [log EXCEPT ![m] = @ \o <<"ack_raise", "nack">>]
    /\ Raise
    /\ UNCHANGED <<config, service, inbound, sessions, permits, ag_queue, redelivered,
                   response, wb_queue>>

\* message.nack(requeue=True) returned: the broker requeues the message.
NackOk(m) ==
    /\ pc[m] = "nacking"
    /\ channel = "open"
    /\ ag_queue' = [ag_queue EXCEPT ![m] = "ready"]
    /\ redelivered' = [redelivered EXCEPT ![m] = TRUE]
    /\ pc' = [pc EXCEPT ![m] = "none"]
    /\ permits' = permits + 1
    /\ log' = [log EXCEPT ![m] = << >>]
    /\ response' = [response EXCEPT ![m] = NoResponse]
    /\ UNCHANGED <<config, service, inbound, sessions, wb_queue, clock>>

\* message.reject(requeue=False) returned: the broker dead-letters the message.
RejectOk(m) ==
    /\ pc[m] = "rejecting"
    /\ channel = "open"
    /\ ag_queue' = [ag_queue EXCEPT ![m] = "rejected"]
    /\ pc' = [pc EXCEPT ![m] = "none"]
    /\ permits' = permits + 1
    /\ log' = [log EXCEPT ![m] = << >>]
    /\ response' = [response EXCEPT ![m] = NoResponse]
    /\ UNCHANGED <<redelivered, config, service, inbound, sessions, wb_queue, clock>>

\* Mutant of SettleRaise: the permit is not returned when the handler's own
\* call raises.
SettleRaiseLeak(m) ==
    /\ pc[m] \in {"nacking", "rejecting"}
    /\ pc' = [pc EXCEPT ![m] = "none"]
    /\ log' = [log EXCEPT ![m] = << >>]
    /\ response' = [response EXCEPT ![m] = NoResponse]
    /\ Raise
    /\ UNCHANGED <<config, service, inbound, sessions, permits, ag_queue, redelivered,
                   wb_queue>>

\* nack or reject raised inside its except clause: the exception leaves
\* process_message through `async with`, which releases the semaphore; the
\* delivery stays unsettled.
SettleRaise(m) ==
    /\ pc[m] \in {"nacking", "rejecting"}
    /\ pc' = [pc EXCEPT ![m] = "none"]
    /\ permits' = permits + 1
    /\ log' = [log EXCEPT ![m] = << >>]
    /\ response' = [response EXCEPT ![m] = NoResponse]
    /\ Raise
    /\ UNCHANGED <<config, service, inbound, sessions, ag_queue, redelivered, wb_queue>>

\* ------------------------------------------ SessionManager.cleanup_session
\* Mutant of cleanup_session: the adapter's session is deleted as well.
cleanup_session_and_adapter(k) ==
    /\ active_sessions' = IF Tracked(k)
                            THEN [active_sessions EXCEPT ![k] = Absent]
                            ELSE active_sessions
    /\ session_service' = session_service \ {k}
    /\ UNCHANGED <<config, service, inbound, permits, ag_queue, redelivered,
                   pc, log, response, wb_queue, clock>>

\* Lines 300-310: `if remote_jid in self.active_sessions: del ...`.
cleanup_session(k) ==
    /\ active_sessions' = IF Tracked(k)
                            THEN [active_sessions EXCEPT ![k] = Absent]
                            ELSE active_sessions
    /\ UNCHANGED <<config, service, inbound, session_service, permits, ag_queue, redelivered,
                   pc, log, response, wb_queue, clock>>

\* ------------------------------------------------------------------- Next
Next ==
    \/ \E m \in Msgs : Deliver(m)
    \/ \E m \in Msgs : Expire(m)
    \/ Tick
    \/ \E m \in Msgs : BrokerRequeue(m)
    \/ \E m \in Msgs : StartDecodeFailed(m)
    \/ \E m \in Msgs : StartNewSession(m)
    \/ \E m \in Msgs, o \in AgentOutcomes : StartTracked(m, o)
    \/ \E m \in Msgs, o \in AgentOutcomes : CreateSessionReturn(m, o)
    \/ \E m \in Msgs : CreateSessionRaise(m)
    \/ \E m \in Msgs, ok \in BOOLEAN : PublishDeclare(m, ok)
    \/ \E m \in Msgs, ok \in BOOLEAN : PublishSend(m, ok)
    \/ \E m \in Msgs : AckOk(m)
    \/ \E m \in Msgs : AckRaise(m)
    \/ \E m \in Msgs : NackOk(m)
    \/ \E m \in Msgs : RejectOk(m)
    \/ \E m \in Msgs : SettleRaise(m)

\* A QueueConsumer consuming ag_queue; nothing in the service calls
\* cleanup_session.
Spec == Init /\ [][Next]_vars

\* The same with a caller of SessionManager.cleanup_session.
Cleanup == \E k \in Jids : cleanup_session(k)

NextWithCleanup == Next \/ Cleanup

SpecCleanup == Init /\ [][NextWithCleanup]_vars

\* ================================================================= claims
Running(m) == pc[m] # "none"

\* Event a is logged before event b by m's task.
Before(m, a, b) ==
    \E i, j \in 1..Len(log[m]) : i < j /\ log[m][i] = a /\ log[m][j] = b

\* The events that end publish_response.
PublishFinished == {"publish_ok", "publish_raise", "declare_raise", "no_channel"}

\* The exceptions that reach `except Exception` of process_message.
Unexpected == {"UnicodeDecodeError", "AttributeError", "ack_raise"}

\* C1: every decoded inbound message that has been acknowledged has exactly
\* one outbound message on wb_queue whose originalMessageId is its messageId.
C1_ExactlyOneOutbound ==
    \A m \in Msgs :
        (kind[m] = "valid" /\ ag_queue[m] = "acked") => PublishedFor(m) = 1

\* C2: a malformed payload (invalid UTF-8, invalid JSON, JSON that is no
\* object) gets no outbound message, the only handler its task enters is the
\* one that calls reject(requeue=False), and the broker never requeues it.
C2_MalformedRejected ==
    \A m \in Msgs :
        kind[m] \in Malformed =>
            /\ PublishedFor(m) = 0
            /\ (m \in InSection => pc[m] = "rejecting")
            /\ ~redelivered[m]

\* C3: the tasks inside the semaphore-guarded section never number more than
\* max_concurrent.
C3_AtMostMaxConcurrent == Cardinality(InSection) <= max_concurrent

\* C3 witness: the section is full and a delivered message waits for a permit.
C3_Witness ==
    /\ Cardinality(InSection) = max_concurrent
    /\ \E m \in Msgs : pc[m] = "received"

\* C4: when runner.run raised, the response built is the error response for
\* the message: status error, the apology text, error code PROCESSING_ERROR.
C4_RunRaiseGivesError ==
    \A m \in Msgs :
        (Logged(m, "run_raise") /\ response[m] # NoResponse) =>
            /\ response[m].originalMessageId = message_id(m)
            /\ response[m].status = "error"
            /\ response[m].response.text = APOLOGY
            /\ response[m].error # None
            /\ response[m].error.code = "PROCESSING_ERROR"

\* C5: the message_count tracked for a remoteJid never decreases from one
\* state to the next.
C5_MessageCountMonotonic ==
    [][\A k \in Jids :
          (Tracked(k) /\ Tracked(k)') =>
              active_sessions'[k].message_count >= active_sessions[k].message_count]_vars

\* C6: the permits taken are exactly those of the tasks inside the section,
\* so with no task inside every permit is available again.
C6_NoPermitLeak ==
    /\ permits = max_concurrent - Cardinality(InSection)
    /\ (InSection = {} => permits = max_concurrent)

\* C6 witness: a task has left through an exception raised by nack or reject
\* (its delivery is unsettled), no task is running, every permit is back.
C6_Witness ==
    /\ \E m \in Msgs : Orphan(m)
    /\ \A m \in Msgs : ~Running(m)
    /\ permits = max_concurrent

\* C7: ack is called only after publish_response was called and has
\* finished, and publish_response is called only with a response built.
C7_AckAfterPublish ==
    \A m \in Msgs :
        /\ \A j \in 1..Len(log[m]) :
              log[m][j] = "ack" =>
                  \E i, f \in 1..Len(log[m]) :
                      /\ i < f /\ f < j
                      /\ log[m][i] = "publish_call"
                      /\ log[m][f] \in PublishFinished
        /\ \A i \in 1..Len(log[m]) :
              log[m][i] = "publish_call" =>
                  /\ \E b \in 1..Len(log[m]) : b < i /\ log[m][b] = "build"
                  /\ response[m] # NoResponse

\* C7 witness: ack has been called after a publish that succeeded.
C7_Witness ==
    \E m \in Msgs : pc[m] = "acking" /\ Before(m, "publish_ok", "ack")

\* C8: a decoded message is acknowledged only if a response for it is on
\* wb_queue.
C8_AckOnlyIfPublished ==
    \A m \in Msgs :
        (kind[m] = "valid" /\ ag_queue[m] = "acked") => PublishedFor(m) >= 1

TaskStep(m) ==
    \/ StartDecodeFailed(m)
    \/ StartNewSession(m)
    \/ \E o \in AgentOutcomes : StartTracked(m, o)
    \/ \E o \in AgentOutcomes : CreateSessionReturn(m, o)
    \/ CreateSessionRaise(m)
    \/ \E ok \in BOOLEAN : PublishDeclare(m, ok)
    \/ \E ok \in BOOLEAN : PublishSend(m, ok)
    \/ AckOk(m)
    \/ AckRaise(m)
    \/ NackOk(m)
    \/ RejectOk(m)
    \/ SettleRaise(m)

\* The event loop runs every task that can run and every awaited call
\* returns or raises; the broker delivers, expires and requeues; time passes.
Fairness ==
    /\ WF_vars(Tick)
    /\ \A m \in Msgs :
          /\ WF_vars(TaskStep(m))
          /\ WF_vars(Deliver(m))
          /\ WF_vars(Expire(m))
          /\ WF_vars(BrokerRequeue(m))

FairSpec == Init /\ [][Next]_vars /\ Fairness

Left(m) == ag_queue[m] \in {"acked", "rejected", "expired"}

Settlements(m) == CountOf(log[m], "ack") + CountOf(log[m], "nack") + CountOf(log[m], "reject")

\* nack was called by m's task only as the handler of a failed ack.
NackOnlyAfterAckRaise(m) ==
    \A i \in 1..Len(log[m]) :
        log[m][i] = "nack" => (i > 1 /\ log[m][i - 1] = "ack_raise")

PublishFailed == {"declare_raise", "publish_raise", "no_channel"}

\* C12: when publish_response fails (no channel, the passive declare raises,
\* the publish raises) the next thing process_message does is call ack; it
\* calls reject never and nack only if that ack itself raises.
C12_PublishFailureIsAcked ==
    \A m \in Msgs : \A i \in 1..Len(log[m]) :
        log[m][i] \in PublishFailed =>
            /\ Len(log[m]) > i
            /\ log[m][i + 1] = "ack"
            /\ pc[m] \in {"acking", "nacking"}
            /\ ~Logged(m, "reject")
            /\ NackOnlyAfterAckRaise(m)

\* C12 witness: the publish raised, nothing is on wb_queue for the message
\* and the task is in ack.
C12_Witness ==
    \E m \in Msgs :
        /\ pc[m] = "acking"
        /\ Before(m, "publish_raise", "ack")
        /\ PublishedFor(m) = 0

\* ------------------------------------------------- building the response
\* Lines 120-208 of SessionManager.process_message applied to request m for
\* which runner.run does `outcome`.
Build(m, outcome) ==
    /\ DecodeHandler(kind[m]) = "route"
    /\ returned' = [returned EXCEPT ![m] = outcome]
    /\ response' = [response EXCEPT ![m] = InvokeAndBuild(m, outcome)]
    /\ UNCHANGED <<config, inbound, sessions, permits, ag_queue, redelivered, pc,
                   log, wb_queue, clock, connection, is_running, qos, declared,
                   consuming, main, stopper, service_is_running>>

\* SessionManager.process_message(request) for a decoded request m when one
\* of the calls before the invocation raised: the outer except builds the
\* error response.
BuildError(m) ==
    /\ DecodeHandler(kind[m]) = "route"
    /\ returned' = [returned EXCEPT ![m] = "none"]
    /\ response' = [response EXCEPT ![m] = ErrorResponse(m)]
    /\ UNCHANGED <<config, inbound, sessions, permits, ag_queue, redelivered, pc,
                   log, wb_queue, clock, connection, is_running, qos, declared,
                   consuming, main, stopper, service_is_running>>

BuildNext ==
    \/ \E m \in Msgs, o \in AgentOutcomes : Build(m, o)
    \/ \E m \in Msgs : BuildError(m)

\* The requests handed to SessionManager.process_message: as in Init, and a
\* queued body may also be a JSON object without a messageId member.
BuildInit ==
    /\ Constructed
    /\ kind \in [Msgs -> Bodies]
    /\ jid \in [Msgs -> Jids]
    /\ \A m \in Msgs : jid[m] \in {JidOf(i) : i \in 1..m}
    /\ \A m \in Msgs \ Queued : kind[m] = "valid" /\ jid[m] = JidOf(m)
    /\ ag_queue = [m \in Msgs |-> IF m \in Queued THEN "ready" ELSE "absent"]
    /\ redelivered = [m \in Msgs |-> FALSE]
    /\ wb_queue = EmptyBag
    /\ now = 0
    /\ faults = 0
    /\ NoTasks
    /\ Consuming
    /\ Configured

SpecBuild == BuildInit /\ [][BuildNext]_vars

\* The outcomes in which the agent returns a text.
ReturnsText == {"text", "none_text"}

\* C13: when the agent invocation for message m returned a text, the response
\* built has originalMessageId m, status success, no error and that text.
C13_ReturnedTextIsEchoed ==
    \A m \in Msgs :
        returned[m] \in ReturnsText =>
            /\ response[m].originalMessageId = message_id(m)
            /\ response[m].status = "success"
            /\ response[m].error = None
            /\ response[m].response.text = ExtractText(returned[m])

\* ------------------------------------------------------------- the burst
\* max_concurrent + 1 messages of as many remoteJids have been delivered at
\* once (prefetch_count allows it) to a consumer with max_concurrent permits;
\* their tasks have been created and none has run yet.  The first body is of
\* any kind, the others are well-formed.
BurstInit ==
    /\ prefetch_count = BurstSize
    /\ max_concurrent = MaxPermits
    /\ permits = max_concurrent
    /\ active_sessions = [k \in Jids |-> Absent]
    /\ session_service = {}
    /\ kind \in [Msgs -> Kinds]
    /\ \A m \in Msgs \ {1} : kind[m] = "valid"
    /\ jid = [m \in Msgs |-> JidOf(m)]
    /\ ag_queue = [m \in Msgs |-> "unacked"]
    /\ redelivered = [m \in Msgs |-> FALSE]
    /\ wb_queue = EmptyBag
    /\ now = 0
    /\ faults = 0
    /\ pc = [m \in Msgs |-> "received"]
    /\ log = [m \in Msgs |-> << >>]
    /\ response = [m \in Msgs |-> NoResponse]
    /\ returned = [m \in Msgs |-> "none"]
    /\ Consuming
    /\ Configured

FairBurst == BurstInit /\ [][Next]_vars /\ Fairness

\* m's task goes from waiting for the semaphore to inside the section.
Starts(m) == pc[m] = "received" /\ pc'[m] \notin {"received", "none"}

\* C14: a task waiting for the semaphore starts only in a state where fewer
\* than max_concurrent tasks are inside the section, that is after one of
\* them has released its permit; and under fairness every waiting task does
\* start.
C14_WaitsThenStarts ==
    /\ [][\A m \in Msgs :
            Starts(m) => (permits > 0 /\ Cardinality(InSection) < max_concurrent)]_vars
    /\ \A m \in Msgs : (pc[m] = "received") ~> (pc[m] # "received")

\* C14 witness: of max_concurrent + 1 tasks one has been acknowledged and
\* has left, and every other one is inside the section: the task that had to
\* wait has started after the release.
C14_Witness ==
    /\ max_concurrent = 2
    /\ \E a \in Msgs :
          /\ ag_queue[a] = "acked"
          /\ \A o \in Msgs \ {a} : o \in InSection /\ ~redelivered[o]
    /\ \A m, o \in Msgs : m # o => jid[m] # jid[o]

\* ------------------------------------------------ the invocation in time
\* The same consumer with the call of runner.run and its return as two
\* steps.  `list(runner.run(...))` (session_manager.py lines 124-128) is a
\* plain call inside the coroutine: from the call to the return the thread of
\* the event loop is inside runner.run, and the loop runs no task and no
\* callback.

\* StartTracked up to the call of runner.run.
StartTrackedCall(m) ==
    /\ pc[m] = "received"
    /\ CanAcquire
    /\ DecodeHandler(kind[m]) = "route"
    /\ Tracked(jid[m])
    /\ permits' = permits - 1
    /\ active_sessions' = Increment(active_sessions, jid[m])
    /\ pc' = [pc EXCEPT ![m] = "invoking"]
    /\ log' = [log EXCEPT ![m] = <<"acquire", "decode", "route">>]
    /\ UNCHANGED <<config, service, inbound, session_service, ag_queue,
                   redelivered, response, wb_queue, clock>>

\* CreateSessionReturn up to the call of runner.run.
CreateSessionReturnCall(m) ==
    /\ pc[m] = "creating"
    /\ session_service' = session_service \cup {jid[m]}
    /\ active_sessions' = Increment(Record(active_sessions, jid[m]), jid[m])
    /\ pc' = [pc EXCEPT ![m] = "invoking"]
    /\ UNCHANGED <<config, service, inbound, permits, ag_queue, redelivered, log,
                   response, wb_queue, clock>>

\* runner.run returned or raised: extract, build, enter publish_response.
RunReturn(m, outcome) ==
    /\ pc[m] = "invoking"
    /\ response' = [response EXCEPT ![m] = InvokeAndBuild(m, outcome)]
    /\ pc' = [pc EXCEPT ![m] = PublishEntryPc]
    /\ log' = [log EXCEPT ![m] = @ \o <<RunEvent(outcome), "build">> \o PublishEntryLog]
    /\ UNCHANGED <<config, service, inbound, sessions, permits, ag_queue,
                   redelivered, wb_queue, clock>>

\* The thread of the event loop is inside runner.run.
LoopHeld == \E m \in Msgs : pc[m] = "invoking"

\* A step of m's task between two of its suspension points.
LoopTaskStep(m) ==
    \/ StartDecodeFailed(m)
    \/ StartNewSession(m)
    \/ StartTrackedCall(m)
    \/ CreateSessionReturnCall(m)
    \/ CreateSessionRaise(m)
    \/ \E ok \in BOOLEAN : PublishDeclare(m, ok)
    \/ \E ok \in BOOLEAN : PublishSend(m, ok)
    \/ AckOk(m)
    \/ AckRaise(m)
    \/ NackOk(m)
    \/ RejectOk(m)
    \/ SettleRaise(m)

\* The event loop resumes m's task: only a loop that is running does.
Scheduled(m) == ~LoopHeld /\ LoopTaskStep(m)

\* aio_pika creates the task of a delivery from a callback of the loop.
LoopDeliver(m) == ~LoopHeld /\ Deliver(m)

LoopNext ==
    \/ Tick
    \/ \E m \in Msgs : Expire(m)
    \/ \E m \in Msgs : BrokerRequeue(m)
    \/ \E m \in Msgs : LoopDeliver(m)
    \/ \E m \in Msgs : Scheduled(m)
    \/ \E m \in Msgs, o \in AgentOutcomes : RunReturn(m, o)

SpecLoop == Init /\ [][LoopNext]_vars

\* C15: while the invocation for one remoteJid is in progress, the task of a
\* delivery for another remoteJid that is able to take its next step (a permit
\* is free, the call it awaits can return) is run by the event loop.
C15_InvocationYields ==
    \A m, o \in Msgs :
        (pc[m] = "invoking" /\ jid[o] # jid[m] /\ ENABLED LoopTaskStep(o))
            => ENABLED Scheduled(o)

\* ------------------------------------------------------ session creation
\* m's task is inside the adapter's create_session.
Creating(m) == pc[m] = "creating"

\* m's task writes the tracked entry of its remoteJid with message_count 0
\* (lines 84-88) in this step.
Records(m) == Creating(m) /\ ~Creating(m)' /\ jid[m] \in session_service'

\* C16: create_session is called at most once for a remoteJid (no two tasks
\* are inside it for the same key, none is inside it for a key already
\* created or tracked), and the entry of a key is written with message_count
\* 0 only when the key is not tracked.
C16_CheckAndCreateAtomic ==
    /\ [](\A m \in Msgs :
            Creating(m) =>
                /\ jid[m] \notin session_service
                /\ ~Tracked(jid[m])
                /\ \A o \in Msgs \ {m} : Creating(o) => jid[o] # jid[m])
    /\ [][\A m \in Msgs : Records(m) => ~Tracked(jid[m])]_vars

\* ------------------------------------------------------------ settlement
\* m's task ends in this step.
Ends(m) == Running(m) /\ ~Running(m)'

\* C17: the task of a delivery acquires, decodes, then fails to decode or
\* routes; it makes at most one settlement call (ack, reject, nack), and when
\* it ends it has made exactly one.
C17_OneSettlement ==
    /\ [](\A m \in Msgs :
            /\ Settlements(m) <= 1
            /\ (Len(log[m]) >= 3 =>
                    /\ log[m][1] = "acquire"
                    /\ log[m][2] = "decode"
                    /\ log[m][3] \in {"route", "JSONDecodeError",
                                      "UnicodeDecodeError", "AttributeError"}))
    /\ [][\A m \in Msgs :
            Ends(m) => Settlements(m) = 1]_vars

\* ============================================================== lifecycle
\* connect(), start_consuming() and stop() of QueueConsumer, and start(),
\* shutdown() and main() of main.py.  `main` is the position of the task that
\* runs main() (or of a caller of the consumer), `stopper` the position of
\* the one execution of shutdown()/stop().

\* What the lifecycle leaves alone: the messages and their tasks.
messages == <<kind, jid, environ, entry, active_sessions, session_service, permits, ag_queue,
             redelivered, pc, log, response, wb_queue, returned>>

traffic == <<messages, stop_calls>>

\* A call of the broker made by connect() or stop() raises.
Fault ==
    /\ faults < MaxFaults
    /\ faults' = faults + 1
    /\ UNCHANGED now

\* connect() is awaited by a caller ("") or by start_consuming ("sc:").
Frames == {"", "sc:"}

\* Where control goes when connect() has returned `result`: a caller receives
\* the value; start_consuming drops it and goes on to `if not self.channel`
\* and the passive declare_queue (lines 180-192).
AfterConnect(f, result) ==
    IF f = "" THEN (IF result THEN "connect_true" ELSE "connect_false")
    ELSE IF channel' = "none" THEN "sc_returned" ELSE "sc_declaring"

\* ------------------------------------------------ QueueConsumer.connect
\* Line 67: aio_pika.connect_robust.
ConnectRobust(f, ok) ==
    /\ main = f \o "connecting"
    /\ connection' = IF ok THEN "open" ELSE connection
    /\ UNCHANGED <<channel, qos, declared>>
    /\ main' = IF ok THEN f \o "opening_channel" ELSE AfterConnect(f, FALSE)
    /\ IF ok THEN Return ELSE Fault
    /\ UNCHANGED <<prefetch_count, max_concurrent, is_running, consuming, stopper,
                   service_is_running, traffic>>

\* Line 73: connection.channel() gives a new channel.
OpenChannel(f, ok) ==
    /\ main = f \o "opening_channel"
    /\ channel' = IF ok THEN "open" ELSE channel
    /\ qos' = IF ok THEN 0 ELSE qos
    /\ declared' = IF ok THEN {} ELSE declared
    /\ main' = IF ok THEN f \o "setting_qos" ELSE AfterConnect(f, FALSE)
    /\ IF ok THEN Return ELSE Fault
    /\ UNCHANGED <<prefetch_count, max_concurrent, connection, is_running,
                   consuming, stopper, service_is_running, traffic>>

\* Line 74: channel.set_qos(prefetch_count=self.prefetch_count).
SetQos(f, ok) ==
    /\ main = f \o "setting_qos"
    /\ qos' = IF ok THEN prefetch_count ELSE qos
    /\ UNCHANGED <<channel, declared>>
    /\ main' = IF ok THEN f \o "declaring_ag" ELSE AfterConnect(f, FALSE)
    /\ IF ok THEN Return ELSE Fault
    /\ UNCHANGED <<prefetch_count, max_concurrent, connection, is_running,
                   consuming, stopper, service_is_running, traffic>>

\* Lines 77-84: declare_queue(ag_queue, durable=True, ...).
DeclareAg(f, ok) ==
    /\ main = f \o "declaring_ag"
    /\ declared' = IF ok THEN declared \cup {"ag_queue"} ELSE declared
    /\ UNCHANGED <<channel, qos>>
    /\ main' = IF ok THEN f \o "declaring_wb" ELSE AfterConnect(f, FALSE)
    /\ IF ok THEN Return ELSE Fault
    /\ UNCHANGED <<prefetch_count, max_concurrent, connection, is_running,
                   consuming, stopper, service_is_running, traffic>>

\* Mutant of DeclareWb: the declaration of wb_queue is outside the try.
DeclareWbOutsideTry(f, ok) ==
    /\ main = f \o "declaring_wb"
    /\ declared' = IF ok THEN declared \cup {"wb_queue"} ELSE declared
    /\ UNCHANGED <<channel, qos>>
    /\ main' = IF ok THEN AfterConnect(f, TRUE) ELSE "connect_raised"
    /\ IF ok THEN Return ELSE Fault
    /\ UNCHANGED <<prefetch_count, max_concurrent, connection, is_running,
                   consuming, stopper, service_is_running, traffic>>

\* Lines 86-96: declare_queue(wb_queue, durable=True, ...), then return True.
DeclareWb(f, ok) ==
    /\ main = f \o "declaring_wb"
    /\ declared' = IF ok THEN declared \cup {"wb_queue"} ELSE declared
    /\ UNCHANGED <<channel, qos>>
    /\ main' = AfterConnect(f, ok)
    /\ IF ok THEN Return ELSE Fault
    /\ UNCHANGED <<prefetch_count, max_concurrent, connection, is_running,
                   consuming, stopper, service_is_running, traffic>>

ConnectStep ==
    \E f \in Frames, ok \in BOOLEAN :
        \/ ConnectRobust(f, ok)
        \/ OpenChannel(f, ok)
        \/ SetQos(f, ok)
        \/ DeclareAg(f, ok)
        \/ DeclareWb(f, ok)

\* ---------------------------------------- QueueConsumer.start_consuming
\* Lines 180-192 up to the first await: connect() when there is no open
\* connection, return when there is no channel object, else the passive
\* declare_queue(ag_queue).
ScEntry ==
    IF connection # "open" THEN "sc:connecting"
    ELSE IF channel = "none" THEN "sc_returned" ELSE "sc_declaring"

\* Lines 188-198: the passive declare returned (is_running = True, then
\* queue.consume is awaited) or raised (logged, start_consuming returns).
ScDeclare(ok) ==
    /\ main = "sc_declaring"
    /\ ok => channel = "open"
    /\ is_running' = IF ok THEN TRUE ELSE is_running
    /\ main' = IF ok THEN "sc_consume" ELSE "sc_returned"
    /\ IF ok THEN Return ELSE Raise
    /\ UNCHANGED <<config, connection, qos, declared, consuming, stopper,
                   service_is_running, traffic>>

\* Line 201: queue.consume(self.process_message) returned or raised.
ScConsume(ok) ==
    /\ main = "sc_consume"
    /\ ok => channel = "open"
    /\ consuming' = IF ok THEN TRUE ELSE consuming
    /\ main' = IF ok THEN "loop" ELSE "sc_returned"
    /\ IF ok THEN Return ELSE Raise
    /\ UNCHANGED <<config, connection, qos, declared, is_running, stopper,
                   service_is_running, traffic>>

\* Lines 204-205: asyncio.sleep(1) is over and is_running is False.
LoopWake ==
    /\ main = "loop"
    /\ ~is_running
    /\ main' = "sc_returned"
    /\ UNCHANGED <<config, connection, qos, declared, is_running, consuming,
                   stopper, service_is_running, traffic, clock>>

\* --------------------------------------------------- QueueConsumer.stop
\* Lines 216-222 from one await to the next: the channel is closed if there
\* is one that is not closed, then the connection likewise.
StopNext(ch, conn) ==
    IF ch = "open" THEN "closing_channel"
    ELSE IF conn = "open" THEN "closing_connection" ELSE "stopped"

\* Line 219: channel.close() returned, or raised: the except of stop() logs
\* and stop() returns without reaching the connection.  What a close that
\* raised has done to the channel is the library's matter.
CloseChannel(ok) ==
    /\ stopper = "closing_channel"
    /\ IF ok THEN channel' = "closed" ELSE channel' \in {"open", "closed"}
    /\ consuming' = IF channel' = "closed" THEN FALSE ELSE consuming
    /\ stopper' = IF ok THEN StopNext("closed", connection) ELSE "stopped"
    /\ IF ok THEN Return ELSE Fault
    /\ UNCHANGED <<prefetch_count, max_concurrent, connection, qos, declared,
                   is_running, main, service_is_running, traffic>>

\* Line 222: connection.close() returned or raised.
CloseConnection(ok) ==
    /\ stopper = "closing_connection"
    /\ IF ok THEN connection' = "closed" ELSE connection' \in {"open", "closed"}
    /\ stopper' = "stopped"
    /\ IF ok THEN Return ELSE Fault
    /\ UNCHANGED <<config, qos, declared, is_running, consuming, main,
                   service_is_running, traffic>>

\* ------------------------------------------- a caller of the consumer
\* The consumer used as queue_consumer.py itself does at its end (lines
\* 249-257): connect(), start_consuming() and stop() are called one after
\* the other; stop() is also called while start_consuming sleeps in its loop.
ConnectCall ==
    /\ main = "idle"
    /\ stopper \in {"none", "stopped"}
    /\ main' = "connecting"
    /\ UNCHANGED <<config, connection, qos, declared, is_running, consuming,
                   stopper, service_is_running, traffic, clock>>

ConnectReturn ==
    /\ main \in {"connect_true", "connect_false"}
    /\ main' = "idle"
    /\ UNCHANGED <<config, connection, qos, declared, is_running, consuming,
                   stopper, service_is_running, traffic, clock>>

StartConsumingCall ==
    /\ main = "idle"
    /\ stopper \in {"none", "stopped"}
    /\ main' = ScEntry
    /\ UNCHANGED <<config, connection, qos, declared, is_running, consuming,
                   stopper, service_is_running, traffic, clock>>

StartConsumingReturn ==
    /\ main = "sc_returned"
    /\ main' = "idle"
    /\ UNCHANGED <<config, connection, qos, declared, is_running, consuming,
                   stopper, service_is_running, traffic, clock>>

\* Line 216, then as StopNext.
StopCall ==
    /\ main \in {"idle", "loop"}
    /\ stopper \in {"none", "stopped"}
    /\ is_running' = FALSE
    /\ stopper' = StopNext(channel, connection)
    /\ UNCHANGED <<config, connection, qos, declared, consuming, main,
                   service_is_running, traffic, clock>>

\* A consumer constructed and not connected; nothing on ag_queue.
Unconnected ==
    /\ connection = "none"
    /\ channel = "none"
    /\ qos = 0
    /\ declared = {}
    /\ is_running = FALSE
    /\ consuming = FALSE
    /\ stopper = "none"
    /\ service_is_running = FALSE
    /\ stop_calls = 0

LifecycleInit ==
    /\ prefetch_count \in 1..MaxPrefetch
    /\ max_concurrent \in 1..MaxPermits
    /\ permits = max_concurrent
    /\ active_sessions = [k \in Jids |-> Absent]
    /\ session_service = {}
    /\ Enqueued({})
    /\ NoTasks
    /\ Unconnected
    /\ Configured
    /\ main = "idle"
    /\ entry = "consumer"

LifecycleNext ==
    \/ ConnectCall
    \/ ConnectStep
    \/ ConnectReturn
    \/ StartConsumingCall
    \/ \E ok \in BOOLEAN : ScDeclare(ok)
    \/ \E ok \in BOOLEAN : ScConsume(ok)
    \/ LoopWake
    \/ StartConsumingReturn
    \/ StopCall
    \/ \E ok \in BOOLEAN : CloseChannel(ok)
    \/ \E ok \in BOOLEAN : CloseConnection(ok)

SpecLifecycle == LifecycleInit /\ [][LifecycleNext]_vars

\* ------------------------------------------------------ connect and stop
\* The positions inside a connect() that a caller awaits.
InConnect ==
    {"connecting", "opening_channel", "setting_qos", "declaring_ag", "declaring_wb"}

\* What connect() promises with True.
Connected ==
    /\ connection = "open"
    /\ channel = "open"
    /\ qos = prefetch_count
    /\ declared = QueueNames

\* C18: no exception leaves connect(); a failure of any of its calls makes it
\* return False; it returns True only with the connection and the channel
\* open, the prefetch set to prefetch_count and both queues declared.
C18_ConnectNeverRaises ==
    /\ [](main # "connect_raised")
    /\ [][(main \in InConnect /\ faults' # faults) => main' = "connect_false"]_vars
    /\ [][(main \in InConnect /\ main' = "connect_true") => Connected']_vars

\* C18 witness: connect() has returned False after declare_queue(wb_queue)
\* raised: connection and channel are open, ag_queue is declared.
C18_Witness ==
    /\ main = "connect_false"
    /\ connection = "open"
    /\ channel = "open"
    /\ declared = {"ag_queue"}

\* stop() returns in this step.
StopReturns == stopper # "stopped" /\ stopper' = "stopped"

\* C19: no exception leaves stop(); when it returns, is_running is False and
\* neither the channel nor the connection is open; the connection is closed
\* only once the channel is no longer open; and stop() called with both
\* closed changes nothing.
C19_StopClosesBoth ==
    /\ [](stopper # "stop_raised")
    /\ [][StopReturns =>
            (~is_running' /\ channel' # "open" /\ connection' # "open")]_vars
    /\ [][(connection = "open" /\ connection' = "closed") => channel # "open"]_vars
    /\ [][(stopper = "stopped" /\ main' = main /\ ~is_running
              /\ channel # "open" /\ connection # "open")
            => UNCHANGED <<stopper, is_running, channel, connection>>]_vars

\* ------------------------------------------------------------- main.py
\* BookingAgentService.start line 84: connect() is awaited.
StartConnect ==
    /\ main = "start"
    /\ main' = "connecting"
    /\ UNCHANGED <<config, connection, qos, declared, is_running, consuming,
                   stopper, service_is_running, traffic, clock>>

\* Mutant of StartAfterConnect: start does not look at what connect() returned.
StartAfterConnectUnchecked ==
    /\ main \in {"connect_true", "connect_false"}
    /\ service_is_running' = TRUE
    /\ main' = ScEntry
    /\ UNCHANGED <<config, connection, qos, declared, is_running, consuming,
                   stopper, traffic, clock>>

\* start lines 85-98: without a connection start returns; with one,
\* is_running becomes True and start_consuming is entered.
StartAfterConnect ==
    /\ main \in {"connect_true", "connect_false"}
    /\ service_is_running' = (main = "connect_true")
    /\ main' = IF main = "connect_true" THEN ScEntry ELSE "finally"
    /\ UNCHANGED <<config, connection, qos, declared, is_running, consuming,
                   stopper, traffic, clock>>

\* start_consuming has returned, so has start(): main() is in its finally.
StartReturns ==
    /\ main = "sc_returned"
    /\ main' = "finally"
    /\ UNCHANGED <<config, connection, qos, declared, is_running, consuming,
                   stopper, service_is_running, traffic, clock>>

\* SIGINT or SIGTERM while start_consuming sleeps in its loop:
\* _signal_handler creates a task that runs shutdown() (lines 57-60).
Signal ==
    /\ main = "loop"
    /\ stopper = "none"
    /\ stopper' = "scheduled"
    /\ UNCHANGED <<config, connection, qos, declared, is_running, consuming,
                   main, service_is_running, traffic, clock>>

\* Mutant of ShutdownRun: shutdown() without its `if not self.is_running`
\* check.
ShutdownRunUnguarded ==
    /\ stopper = "scheduled"
    /\ service_is_running' = FALSE
    /\ is_running' = FALSE
    /\ stopper' = StopNext(channel, connection)
    /\ stop_calls' = IF stop_calls < 2 THEN stop_calls + 1 ELSE stop_calls
    /\ UNCHANGED <<config, connection, qos, declared, consuming, main, messages,
                   clock>>

\* The task runs shutdown() up to its first await (lines 106-116, then stop
\* line 216 and on as StopNext).
ShutdownRun ==
    /\ stopper = "scheduled"
    /\ service_is_running' = FALSE
    /\ is_running' = IF service_is_running THEN FALSE ELSE is_running
    /\ stopper' = IF service_is_running THEN StopNext(channel, connection)
                  ELSE "stopped"
    /\ stop_calls' = IF service_is_running THEN stop_calls + 1 ELSE stop_calls
    /\ UNCHANGED <<config, connection, qos, declared, consuming, main, messages,
                   clock>>

\* main() returns and asyncio.run ends the loop: every task still pending is
\* cancelled (CancelledError is raised at its await; `async with` gives the
\* permit back), then the process exits.  The connection and channel objects
\* are as the code left them.
Exit ==
    /\ main' = "exited"
    /\ stopper' = IF stopper \in {"scheduled", "closing_channel", "closing_connection"}
                  THEN "cancelled" ELSE stopper
    /\ consuming' = FALSE
    /\ pc' = [m \in Msgs |-> "none"]
    /\ log' = [m \in Msgs |-> << >>]
    /\ response' = [m \in Msgs |-> NoResponse]
    /\ permits' = max_concurrent
    /\ UNCHANGED <<config, connection, qos, declared, is_running,
                   service_is_running, inbound, sessions, ag_queue, redelivered,
                   wb_queue, returned, clock>>

\* main() lines 145-146: `finally: await service.shutdown()`.  With
\* is_running False shutdown returns at once and main() returns; otherwise
\* main() itself runs shutdown() and stop().
Finally ==
    /\ main = "finally"
    /\ IF service_is_running
          THEN /\ service_is_running' = FALSE
               /\ is_running' = FALSE
               /\ stopper' = StopNext(channel, connection)
               /\ main' = "awaiting_shutdown"
               /\ stop_calls' = stop_calls + 1
               /\ UNCHANGED <<config, connection, qos, declared, consuming,
                              messages, clock>>
          ELSE Exit

\* The shutdown() awaited by main() has returned.
AfterShutdown ==
    /\ main = "awaiting_shutdown"
    /\ stopper = "stopped"
    /\ Exit

\* [var for var in required_vars if not os.getenv(var)], line 132.
missing_vars == required_vars \ environ

\* Mutant of Validate: the service is started unless every variable is missing.
ValidateAny ==
    /\ main = "main"
    /\ main' = IF environ = {} THEN "exit_1" ELSE "start"
    /\ UNCHANGED <<config, traffic, connection, is_running, qos, declared,
                   consuming, stopper, service_is_running, now, faults>>

\* main(), lines 125-142: sys.exit(1) when a required variable is not set,
\* otherwise BookingAgentService() and service.start().
Validate ==
    /\ main = "main"
    /\ main' = IF missing_vars # {} THEN "exit_1" ELSE "start"
    /\ UNCHANGED <<config, traffic, connection, is_running, qos, declared,
                   consuming, stopper, service_is_running, now, faults>>

\* main.py constructs the consumer without prefetch_count, so with 1.
ServiceInit ==
    /\ prefetch_count = 1
    /\ max_concurrent \in 1..MaxPermits
    /\ permits = max_concurrent
    /\ active_sessions = [k \in Jids |-> Absent]
    /\ session_service = {}
    /\ Enqueued(Queued)
    /\ NoTasks
    /\ Unconnected
    /\ environ \in SUBSET required_vars
    /\ main = "main"
    /\ entry = "service"

ServiceNext ==
    \/ Next
    \/ Validate
    \/ StartConnect
    \/ ConnectStep
    \/ StartAfterConnect
    \/ \E ok \in BOOLEAN : ScDeclare(ok)
    \/ \E ok \in BOOLEAN : ScConsume(ok)
    \/ LoopWake
    \/ StartReturns
    \/ Signal
    \/ ShutdownRun
    \/ \E ok \in BOOLEAN : CloseChannel(ok)
    \/ \E ok \in BOOLEAN : CloseConnection(ok)
    \/ Finally
    \/ AfterShutdown

SpecService == ServiceInit /\ [][ServiceNext]_vars

\* ------------------------------------------------------------- shutdown
\* main() returns after a signal was handled: shutdown() in its finally
\* found is_running False.
ExitsAfterSignal == main = "finally" /\ main' = "exited" /\ stopper # "none"

\* The broker hands a delivery to the consumer in this step.
Accepts(m) == pc[m] = "none" /\ pc'[m] = "received"

\* C20: after a signal that arrived while consuming, the process exits with
\* is_running False and the channel and the connection closed, the channel
\* before the connection; once the channel is closed no delivery is
\* accepted; and a process_message task ends only by finishing its own
\* settlement, never by being cancelled.
C20_SignalClosesThenExits ==
    /\ [][ExitsAfterSignal =>
            (~is_running' /\ channel' = "closed" /\ connection' = "closed")]_vars
    /\ [][(connection = "open" /\ connection' = "closed") => channel = "closed"]_vars
    /\ [][channel = "closed" => \A m \in Msgs : ~Accepts(m)]_vars
    /\ [][\A m \in Msgs :
            Ends(m) => pc[m] \in {"acking", "nacking", "rejecting"}]_vars

\* ------------------------------------------------------------ C21 .. C30
Min(a, b) == IF a <= b THEN a ELSE b

\* The process_message calls that hold a permit and have not yet handed the
\* message to publish_response or to a settlement call: the ones that can be
\* inside SessionManager.process_message.
Invoking == {m \in Msgs : pc[m] \in {"creating", "invoking"}}

\* C21: the deliveries not yet settled never exceed prefetch_count, the
\* process_message calls inside the semaphore (and so the agent invocations)
\* never exceed min(prefetch_count, max_concurrent), and with prefetch_count
\* = 1 at most one process_message task exists at any time.
C21_BoundedByPrefetch ==
    /\ Cardinality(Unacked) <= prefetch_count
    /\ Cardinality(InSection) <= Min(prefetch_count, max_concurrent)
    /\ Cardinality(Invoking) <= Min(prefetch_count, max_concurrent)
    /\ prefetch_count = 1 => Cardinality({m \in Msgs : Running(m)}) <= 1

\* One message is being processed under prefetch_count = 1 while a permit is
\* free and another message waits on the queue.
C21_Witness ==
    /\ prefetch_count = 1
    /\ max_concurrent = 2
    /\ permits = 1
    /\ \E m, o \in Msgs : Running(m) /\ ag_queue[o] = "ready" /\ ~Expired

\* Messages a and b of one remoteJid, a enqueued (and so first delivered)
\* before b, on a consumer with prefetch_count = 1.
InOrder(a, b) == prefetch_count = 1 /\ a < b /\ jid[a] = jid[b]

\* The broker hands b to the consumer in this step.
Delivered(b) == ag_queue[b] = "ready" /\ ag_queue'[b] = "unacked"

Built(m) == response[m] # NoResponse

\* C23: every response built has messageId "resp-" + originalMessageId, and
\* the responses built for two distinct inbound messages differ in messageId
\* and in originalMessageId.
C23_OneToOneCorrelation ==
    /\ \A m \in Msgs :
           Built(m) => response[m].messageId = "resp-" \o response[m].originalMessageId
    /\ \A m, o \in Msgs :
           (m # o /\ Built(m) /\ Built(o)) =>
               /\ response[m].messageId # response[o].messageId
               /\ response[m].originalMessageId # response[o].originalMessageId

\* The step in which the task of m leaves the publish call.
Publishes(m) == pc[m] = "pub_publish" /\ pc'[m] # "pub_publish"

\* Message b is put on wb_queue in this step.
Put(b) == CopiesIn(b, wb_queue') = CopiesIn(b, wb_queue) + 1

\* C24: whenever publish_response puts a message on the broker it puts one
\* message, persistent, routed to wb_queue, whose message_id is the messageId
\* of the response it was given and whose body deserialises to that
\* response; publish_response changes no queue declaration.
C24_PublishedAsGiven ==
    [][\A m \in Msgs :
          /\ (Publishes(m) /\ wb_queue' # wb_queue) =>
                 \E b \in BagToSet(wb_queue') :
                     /\ Put(b)
                     /\ BagCardinality(wb_queue') = BagCardinality(wb_queue) + 1
                     /\ b.delivery_mode = "PERSISTENT"
                     /\ b.routing_key = "wb_queue"
                     /\ b.message_id = response[m].messageId
                     /\ json_loads(b.body) = response[m]
          /\ (pc[m] \in {"pub_declare", "pub_publish"} /\ pc'[m] # pc[m]) =>
                 declared' = declared /\ qos' = qos]_vars

\* An error response is on wb_queue; its body deserialises to a response
\* with an error object and the message id of the message.
C24_Witness ==
    \E b \in BagToSet(wb_queue) :
        /\ json_loads(b.body).error # None
        /\ json_loads(b.body).messageId = b.message_id

\* Everything but active_sessions.
rest == <<config, service, inbound, session_service, permits, ag_queue,
          redelivered, pc, log, response, wb_queue, clock>>

\* C25: a step that removes the tracked entry of a key changes no other
\* key's entry, nor the adapter's sessions, nor anything else, so only
\* cleanup_session removes an entry and it removes exactly that one; and
\* cleanup_session for a key that is not tracked changes nothing.
C25_CleanupRemovesOnlyItsKey ==
    [][\A k \in Jids :
          /\ (Tracked(k) /\ ~Tracked(k)') =>
                 /\ \A j \in Jids \ {k} : active_sessions'[j] = active_sessions[j]
                 /\ UNCHANGED rest
          /\ (~Tracked(k) /\ cleanup_session(k)) => UNCHANGED vars]_vars

\* The entry of one key was removed: the adapter still holds its session,
\* and the entry of another key is still tracked.
C25_Witness ==
    \E k, j \in Jids :
        /\ k # j
        /\ ~Tracked(k)
        /\ k \in session_service
        /\ Tracked(j)

\* agentMetadata.sessionId of a response is the remoteJid of its contact.
SessionOfContact(resp) == resp.agentMetadata.sessionId = resp.contact.remoteJid

Processed(m) == ~Built(m) /\ Built(m)'

\* Messages are processed one at a time: the consumer has prefetch_count 1,
\* so the task of one message is over before the next is delivered.
Sequential == prefetch_count = 1

MessageCount(as, k) == as[k].message_count

\* C27: with messages processed one at a time and no cleanup, each message
\* processed for a remoteJid, whether its response is a success or an error
\* response, leaves the key tracked with a messageCount one larger than
\* before (an untracked key counting as 0); so after n messages it is n.
C27_CountedOncePerMessage ==
    [][\A m \in Msgs :
          (Sequential /\ Processed(m)) =>
              /\ Tracked(jid[m])'
              /\ MessageCount(active_sessions', jid[m]) =
                     MessageCount(active_sessions, jid[m]) + 1]_vars

\* The invocation gave no text to extract: no event, no part with a text,
\* an exception, or the text "None".
NoExtractableText(outcome) == ExtractText(outcome) \in {"", "None"}

required_fields == {"messageId", "originalMessageId", "timestamp", "status",
                    "contact", "response", "agentMetadata"}

metadata_fields == {"sessionId", "processingTime", "model"}

\* The list of errors validate_response returns, as a set.
validate_response(resp) ==
    {"Missing required field: " \o f : f \in required_fields \ DOMAIN resp}
    \cup (IF "response" \in DOMAIN resp
          THEN {"Response missing '" \o f \o "' field" :
                    f \in {"text", "type"} \ DOMAIN resp.response}
          ELSE {})
    \cup (IF "agentMetadata" \in DOMAIN resp
          THEN {"Missing metadata field: " \o f :
                    f \in metadata_fields \ DOMAIN resp.agentMetadata}
          ELSE {})

\* C29: every response SessionManager.process_message returns, a success or
\* an error response, passes validate_response: the list of errors is empty.
C29_ResponsesValidate ==
    \A m \in Msgs : Built(m) => validate_response(response[m]) = {}

\* A success response and an error response have been returned.
C29_Witness ==
    \E m, o \in Msgs :
        /\ response[m].status = "success"
        /\ response[o].status = "error"
        /\ validate_response(response[o]) = {}

\* No message has been handed to the consumer.
NothingConsumed ==
    \A m \in Msgs : ~Running(m) /\ ag_queue[m] \notin {"unacked", "acked", "rejected"}

\* C30: while a required variable is missing, main() is at its check or has
\* exited with status 1, no connection or channel exists and no message is
\* consumed; and main() leaves its check to sys.exit(1) when a variable is
\* missing and to the start of the service when all are set.
C30_ExitsWithoutCredentials ==
    /\ [](missing_vars # {} =>
             /\ main \in {"main", "exit_1"}
             /\ connection = "none"
             /\ channel = "none"
             /\ ~consuming
             /\ NothingConsumed)
    /\ [][(main = "main" /\ main' # "main") =>
             main' = IF missing_vars = {} THEN "start" ELSE "exit_1"]_vars

\* main() has exited with status 1 because one of the variables is missing
\* while the others are set.
C30_Witness ==
    /\ main = "exit_1"
    /\ Cardinality(missing_vars) = 1

\* ------------------------------------------------------------ C31 .. C38
\* ---------------------------------------------------------- process crash
\* Mutant of Crash: the consumer had asked for no acknowledgments, so the
\* broker has forgotten every message it delivered.
CrashAutoAck ==
    /\ \E m \in Msgs : ag_queue[m] = "unacked"
    /\ faults < MaxFaults
    /\ faults' = faults + 1
    /\ pc' = [m \in Msgs |-> "none"]
    /\ log' = [m \in Msgs |-> << >>]
    /\ response' = [m \in Msgs |-> NoResponse]
    /\ permits' = max_concurrent
    /\ active_sessions' = [k \in Jids |-> Absent]
    /\ session_service' = {}
    /\ ag_queue' = [m \in Msgs |->
                      IF ag_queue[m] = "unacked" THEN "acked" ELSE ag_queue[m]]
    /\ UNCHANGED <<redelivered, config, service, inbound, wb_queue, now>>

\* The process dies while deliveries are unsettled and is started again: its
\* tasks and everything it held in memory (permits, tracked sessions, the
\* adapter's sessions) are gone, the broker sees the connection drop and puts
\* every unacknowledged delivery back on ag_queue, marked redelivered; what
\* is on wb_queue stays.  The new process consumes as the old one did.
Crash ==
    /\ \E m \in Msgs : ag_queue[m] = "unacked"
    /\ faults < MaxFaults
    /\ faults' = faults + 1
    /\ pc' = [m \in Msgs |-> "none"]
    /\ log' = [m \in Msgs |-> << >>]
    /\ response' = [m \in Msgs |-> NoResponse]
    /\ permits' = max_concurrent
    /\ active_sessions' = [k \in Jids |-> Absent]
    /\ session_service' = {}
    /\ ag_queue' = [m \in Msgs |->
                      IF ag_queue[m] = "unacked" THEN "ready" ELSE ag_queue[m]]
    /\ redelivered' = [m \in Msgs |-> redelivered[m] \/ ag_queue[m] = "unacked"]
    /\ UNCHANGED <<config, service, inbound, wb_queue, now>>

NextWithCrash == Next \/ Crash

SpecCrash == Init /\ [][NextWithCrash]_vars

\* The task of m has published its response and not yet had its ack
\* answered.
PublishedNotAcked(m) == pc[m] = "acking" /\ Logged(m, "publish_ok")

\* The process dies in this step.
Crashes == (\E m \in Msgs : Running(m)) /\ (\A m \in Msgs : ~Running(m)') /\
           active_sessions' = [k \in Jids |-> Absent] /\ faults' = faults + 1

\* The outbound messages that carry the ids of the response to m.
SameIds(m) ==
    {b \in BagToSet(wb_queue) :
        /\ b.message_id = "resp-" \o message_id(m)
        /\ json_loads(b.body).messageId = "resp-" \o message_id(m)
        /\ json_loads(b.body).originalMessageId = message_id(m)}

C32_EventuallySettled ==
    /\ \A m \in Msgs : Running(m) ~> ~Running(m)
    /\ [][\A m \in Msgs :
             Ends(m) =>
                 /\ ag_queue'[m] # "unacked"
                 /\ m \in InSection => permits' = permits + 1]_vars

\* The entry of key k was removed by cleanup_session: the adapter still has
\* the session, the registry does not track it.
CleanedUp(k) == k \in session_service /\ ~Tracked(k)

\* The task of m leaves the semaphore wait and the decoding in this step.
Enters(m) == pc[m] = "received" /\ pc'[m] # "received"

\* The awaited create_session of m's task ends in this step.
CreateEnds(m) == Creating(m) /\ ~Creating(m)'

\* C33: a well-formed message for a key whose entry was cleaned up calls
\* create_session again, and when that call ends the key is tracked with
\* messageCount 1 and the response built has status success.
C33_FirstMessageAfterCleanup ==
    [][\A m \in Msgs :
          /\ (Enters(m) /\ DecodeHandler(kind[m]) = "route" /\ CleanedUp(jid[m])) =>
                 Creating(m)'
          /\ (CreateEnds(m) /\ CleanedUp(jid[m])) =>
                 /\ Tracked(jid[m])'
                 /\ MessageCount(active_sessions', jid[m]) = 1
                 /\ response'[m].status = "success"]_vars

\* C34: when create_session raises for the task of m, the step records no
\* entry and changes no messageCount and no session of the adapter, and the
\* response built is the error response with code PROCESSING_ERROR; the task
\* then ends by message.ack() (another settlement only after ack itself
\* raised); and a well-formed message for a key that is not tracked always
\* attempts create_session.
C34_CreateFailureLeavesNoEntry ==
    [][\A m \in Msgs :
          /\ (CreateEnds(m) /\ Logged(m, "create_raise")') =>
                 /\ active_sessions' = active_sessions
                 /\ session_service' = session_service
                 /\ response'[m].status = "error"
                 /\ response'[m].error # None
                 /\ response'[m].error.code = "PROCESSING_ERROR"
          /\ (Ends(m) /\ Logged(m, "create_raise")) =>
                 ag_queue'[m] = "acked" \/ Logged(m, "ack_raise")
          /\ (Enters(m) /\ DecodeHandler(kind[m]) = "route" /\ ~Tracked(jid[m])) =>
                 Creating(m)']_vars

\* The first message of a key was acknowledged after create_session raised
\* and its error response is on wb_queue; the key is not tracked and the
\* next message of the key is inside create_session.
C34_Witness ==
    \E m, o \in Msgs :
        /\ m # o
        /\ jid[m] = jid[o]
        /\ ag_queue[m] = "acked"
        /\ \E b \in AnswersTo(m) : json_loads(b.body).status = "error"
        /\ Creating(o)
        /\ ~Tracked(jid[o])

\* The body of m does not decode to a JSON object.
FailsDecoding(m) == DecodeHandler(kind[m]) # "route"

\* C35: no step of a delivery that fails decoding changes the tracked
\* sessions or the adapter's sessions, and such a delivery never reaches
\* SessionManager.process_message: its task is only ever waiting, rejecting
\* or requeueing, and no response is built for it.
C35_DecodeFailureLeavesRegistry ==
    /\ [][\A m \in Msgs :
             (FailsDecoding(m) /\ pc'[m] # pc[m]) =>
                 UNCHANGED <<active_sessions, session_service>>]_vars
    /\ [](\A m \in Msgs :
             FailsDecoding(m) =>
                 /\ pc[m] \in {"none", "received", "nacking", "rejecting"}
                 /\ ~Built(m))

\* A body that is not JSON was rejected and one that is not UTF-8 was
\* requeued; nothing is tracked and the adapter holds no session.
C35_Witness ==
    /\ \E m \in Msgs : kind[m] = "bad_json" /\ ag_queue[m] = "rejected"
    /\ \E m \in Msgs : kind[m] = "bad_utf8" /\ redelivered[m]
    /\ \A k \in Jids : ~Tracked(k)
    /\ session_service = {}

\* status is success or error, it is success exactly when error is null, and
\* an error object has code PROCESSING_ERROR.
StatusMatchesError(resp) ==
    /\ resp.status \in {"success", "error"}
    /\ resp.status = "success" <=> resp.error = None
    /\ resp.error # None => resp.error.code = "PROCESSING_ERROR"

\* C36: every response built, on the success path and on the error path,
\* has status success or error, status success exactly when error is null,
\* and code PROCESSING_ERROR in every error that is not null; the same holds
\* after the response has been serialised and read back.
C36_StatusMatchesError ==
    \A m \in Msgs :
        Built(m) =>
            /\ StatusMatchesError(response[m])
            /\ StatusMatchesError(json_loads(encode(json_dumps(response[m]))))

\* A success response built after runner.run raised (error is null) and an
\* error response with its error object.
C36_Witness ==
    \E m, o \in Msgs :
        /\ returned[m] = "raise"
        /\ response[m].status = "success"
        /\ response[m].error = None
        /\ response[o].status = "error"
        /\ response[o].error # None

\* ------------------------------------------------- signals at any time
\* The handlers are installed by BookingAgentService.__init__ (lines 54-55),
\* so from then until the process exits every SIGINT or SIGTERM creates a
\* task that runs shutdown().  One such task is followed at a time: a task
\* created while another caller is inside stop() finds is_running False and
\* returns at once.
SignalAnyTime ==
    /\ main \notin {"main", "exit_1", "exited"}
    /\ stopper \in {"none", "stopped"}
    /\ stopper' = "scheduled"
    /\ UNCHANGED <<config, connection, qos, declared, is_running, consuming,
                   main, service_is_running, traffic, clock>>

SignalsNext == ServiceNext \/ SignalAnyTime

SpecSignals == ServiceInit /\ [][SignalsNext]_vars

\* The task created by the signal handler runs shutdown() in this step.
SignalTaskRuns == stopper = "scheduled" /\ stopper' # "scheduled" /\ main' = main

\* C37: whatever the interleaving of signals, start() and main()'s finally,
\* consumer.stop() is called at most once; it is called only by a shutdown()
\* that finds is_running True and sets it False; and a shutdown() that finds
\* is_running False, as before a successful start, changes nothing.
C37_ShutdownIdempotent ==
    /\ [](stop_calls <= 1)
    /\ [][stop_calls' # stop_calls =>
             /\ stop_calls' = stop_calls + 1
             /\ service_is_running
             /\ ~service_is_running']_vars
    /\ [][(SignalTaskRuns /\ ~service_is_running) =>
             UNCHANGED <<connection, channel, is_running, service_is_running,
                         consuming, qos, declared, traffic>>]_vars

\* consumer.stop() has been called once and another shutdown() task is
\* waiting to run while the service is still up.
C37_Witness ==
    /\ stop_calls = 1
    /\ stopper = "scheduled"
    /\ main \in {"loop", "awaiting_shutdown"}

\* ------------------------------------------------------------- C38
\* The process runs main.py (BookingAgentService, signals at any time) or
\* uses the consumer directly, as queue_consumer.py's own __main__ does.
StartupInit == ServiceInit \/ LifecycleInit

StartupNext ==
    \/ entry = "service" /\ SignalsNext
    \/ entry = "consumer" /\ LifecycleNext

SpecStartup == StartupInit /\ [][StartupNext]_vars

\* The service's connect() has returned False.
ConnectFailed == entry = "service" /\ main = "connect_false"

\* The step in which start_consuming reaches `if not self.channel`
\* (line 183): on entry with an open connection, or when its own connect()
\* has returned.
ChannelCheck ==
    /\ main \notin {"sc_declaring", "sc_consume", "loop", "sc_returned"}
    /\ main' \in {"sc_declaring", "sc_returned"}

\* C38: once the service's connect() has returned False, the service is
\* never running, the consumer is never running or consuming and no message
\* is ever consumed, and start's next step is its return into main()'s
\* finally; and whenever start_consuming finds no channel at its check it
\* returns with nothing registered, so it is at the declaration or the
\* registration of the consumer only with a channel.
C38_NoConsumingWithoutConnect ==
    /\ [](ConnectFailed =>
             [](/\ ~service_is_running
                /\ ~is_running
                /\ ~consuming
                /\ NothingConsumed
                /\ main \in {"connect_false", "finally", "exited"}))
    /\ [][(ChannelCheck /\ channel' = "none") =>
             /\ main' = "sc_returned"
             /\ UNCHANGED <<is_running, consuming, channel, connection>>]_vars
    /\ [](main \in {"sc_declaring", "sc_consume"} => channel # "none")

\* connect() failed after it had opened the connection and the channel, and
\* start has returned into main()'s finally without the service running.
C38_Witness ==
    /\ entry = "service"
    /\ main = "finally"
    /\ ~service_is_running
    /\ stop_calls = 0
    /\ connection = "open"
    /\ channel = "open"
    /\ ~consuming

====
